---- MODULE Spec2Model ----
(***************************************************************************)
(* The tactical map view of counter-strike-analytics: MapCanvas (scaling   *)
(* variant) with its PlayerMarker children.  The component keeps two       *)
(* pieces of React state, mapImage and dimensions, fits the map image into *)
(* the window with getScaleFactor and draws one Circle per alive player.   *)
(*                                                                         *)
(* Every number of the component is an ECMAScript Number, so the           *)
(* arithmetic below is IEEE-754 binary64 with round-to-nearest-even: a     *)
(* finite Number is [sgn, mant, exp] with value sgn * mant * 2^exp, mant a *)
(* 53-bit natural kept as little-endian limbs of LimbBits bits.  The       *)
(* magnitudes that occur stay far inside the exponent range, so overflow,  *)
(* subnormals, infinities and NaN are left out (image sizes are positive). *)
(***************************************************************************)
EXTENDS Integers, Sequences, FiniteSets, TLC

VARIABLES players, asset, mapImage, dimensions, innerSize, resizeQueue,
          listening, mounted, loadState, pendingUpdates, frame

vars == <<players, asset, mapImage, dimensions, innerSize, resizeQueue,
          listening, mounted, loadState, pendingUpdates, frame>>

----------------------------------------------------------------------------
(* ECMAScript Number arithmetic                                            *)

\* Operator arguments are evaluated once: Val1/Val2 bind the values of their
\* arguments before applying Op.
Val1(Op(_), a) == CHOOSE r \in {Op(av) : av \in {a}} : TRUE
Val2(Op(_, _), a, b) == CHOOSE r \in {Op(av, bv) : av \in {a}, bv \in {b}} : TRUE
Val3(Op(_, _, _), a, b, c) ==
    CHOOSE r \in {Op(av, bv, cv) : av \in {a}, bv \in {b}, cv \in {c}} : TRUE
Val4(Op(_, _, _, _), a, b, c, d) ==
    CHOOSE r \in {Op(av, bv, cv, dv) : av \in {a}, bv \in {b}, cv \in {c}, dv \in {d}} : TRUE
Val5(Op(_, _, _, _, _), a, b, c, d, e) ==
    CHOOSE r \in {Op(av, bv, cv, dv, ev) :
                    av \in {a}, bv \in {b}, cv \in {c}, dv \in {d}, ev \in {e}} : TRUE
Val6(Op(_, _, _, _, _, _), a, b, c, d, e, f) ==
    CHOOSE r \in {Op(av, bv, cv, dv, ev, fv) :
                    av \in {a}, bv \in {b}, cv \in {c}, dv \in {d}, ev \in {e}, fv \in {f}} : TRUE

MantissaBits == 53
LimbBits == 15
LimbBase == 32768

RECURSIVE Pow2(_)
Pow2(k) == IF k = 0 THEN 1 ELSE 2 * Pow2(k - 1)

RECURSIVE BitLen(_)
BitLen(n) == IF n = 0 THEN 0 ELSE 1 + BitLen(n \div 2)

Limb(l, i) == IF i <= Len(l) THEN l[i] ELSE 0

RECURSIVE LTrim(_)
LTrim(l) == IF l = <<>> \/ l[Len(l)] # 0 THEN l ELSE LTrim(SubSeq(l, 1, Len(l) - 1))

RECURSIVE LNat(_)
LNat(n) == IF n = 0 THEN <<>> ELSE <<n % LimbBase>> \o LNat(n \div LimbBase)

LBitLenV(l) == IF l = <<>> THEN 0 ELSE LimbBits * (Len(l) - 1) + BitLen(l[Len(l)])
LBitLen(l) == Val1(LBitLenV, l)

RECURSIVE LAddFrom(_, _, _, _)
LAddFrom(la, lb, i, carry) ==
    IF i > Len(la) /\ i > Len(lb)
    THEN IF carry = 0 THEN <<>> ELSE <<carry>>
    ELSE LET sumI == Limb(la, i) + Limb(lb, i) + carry
         IN  <<sumI % LimbBase>> \o LAddFrom(la, lb, i + 1, sumI \div LimbBase)
LAddV(la, lb) == LAddFrom(la, lb, 1, 0)
LAdd(la, lb) == Val2(LAddV, la, lb)

RECURSIVE LSubFrom(_, _, _, _)
LSubFrom(la, lb, i, borrow) ==
    IF i > Len(la) THEN <<>>
    ELSE LET diffI == Limb(la, i) - Limb(lb, i) - borrow
         IN  <<diffI % LimbBase>> \o LSubFrom(la, lb, i + 1, IF diffI < 0 THEN 1 ELSE 0)
LSubV(la, lb) == LTrim(LSubFrom(la, lb, 1, 0))
LSub(la, lb) == Val2(LSubV, la, lb)

RECURSIVE LCmpFrom(_, _, _)
LCmpFrom(la, lb, i) ==
    IF i = 0 THEN 0
    ELSE IF la[i] # lb[i] THEN (IF la[i] > lb[i] THEN 1 ELSE -1)
    ELSE LCmpFrom(la, lb, i - 1)
LCmpV(la, lb) ==
    IF Len(la) # Len(lb) THEN (IF Len(la) > Len(lb) THEN 1 ELSE -1)
    ELSE LCmpFrom(la, lb, Len(la))
LCmp(la, lb) == Val2(LCmpV, la, lb)

RECURSIVE LMulSmallFrom(_, _, _, _)
LMulSmallFrom(la, m, i, carry) ==
    IF i > Len(la)
    THEN IF carry = 0 THEN <<>> ELSE <<carry>>
    ELSE LET prodI == la[i] * m + carry
         IN  <<prodI % LimbBase>> \o LMulSmallFrom(la, m, i + 1, prodI \div LimbBase)
LMulSmallV(la, m) == IF m = 0 THEN <<>> ELSE LMulSmallFrom(la, m, 1, 0)
LMulSmall(la, m) == Val2(LMulSmallV, la, m)

LShiftLimbsV(la, n) == IF la = <<>> THEN <<>> ELSE [i \in 1..n |-> 0] \o la
LShiftLimbs(la, n) == Val2(LShiftLimbsV, la, n)

RECURSIVE LMulFrom(_, _, _)
LMulFrom(la, lb, i) ==
    IF i > Len(lb) THEN <<>>
    ELSE LAdd(LShiftLimbs(LMulSmall(la, lb[i]), i - 1), LMulFrom(la, lb, i + 1))
LMulV(la, lb) == LMulFrom(la, lb, 1)
LMul(la, lb) == Val2(LMulV, la, lb)

LShlV(la, k) == LShiftLimbs(LMulSmall(la, Pow2(k % LimbBits)), k \div LimbBits)
LShl(la, k) == Val2(LShlV, la, k)

RECURSIVE LDivSmallFrom(_, _, _, _)
LDivSmallFrom(la, dv, i, rem) ==
    IF i = 0 THEN <<>>
    ELSE LET curI == rem * LimbBase + la[i]
         IN  LDivSmallFrom(la, dv, i - 1, curI % dv) \o <<curI \div dv>>
LShrV(la, k) ==
    IF k \div LimbBits >= Len(la) THEN <<>>
    ELSE LET hi == SubSeq(la, (k \div LimbBits) + 1, Len(la))
         IN  LTrim(LDivSmallFrom(hi, Pow2(k % LimbBits), Len(hi), 0))
LShr(la, k) == Val2(LShrV, la, k)

FZero == [sgn |-> 0, mant |-> <<>>, exp |-> 0]

\* Carry out of the mantissa (all ones rounded up) moves to the next exponent.
RenormV(sg, r, e) ==
    IF LBitLen(r) > MantissaBits
    THEN [sgn |-> sg, mant |-> LShr(r, 1), exp |-> e + 1]
    ELSE [sgn |-> sg, mant |-> r, exp |-> e]
Renorm(sg, r, e) == Val3(RenormV, sg, r, e)

\* kept, rounded up when the dropped part is above half, or half with kept odd.
NearestEvenV(kept, c) ==
    IF c > 0 \/ (c = 0 /\ kept[1] % 2 = 1) THEN LAdd(kept, <<1>>) ELSE kept
NearestEven(kept, c) == Val2(NearestEvenV, kept, c)

\* m with its k low bits dropped, rounded to nearest, ties to even.
DropBitsV(m, k, kept) ==
    NearestEven(kept, LCmp(LSub(m, LShl(kept, k)), LShl(<<1>>, k - 1)))
DropBits(m, k) == Val3(DropBitsV, m, k, LShr(m, k))

\* The Number nearest to sg * m * 2^e.
RoundBitsV(sg, m, e, n) ==
    IF n = 0 \/ sg = 0 THEN FZero
    ELSE IF n <= MantissaBits
    THEN [sgn |-> sg, mant |-> LShl(m, MantissaBits - n), exp |-> e - (MantissaBits - n)]
    ELSE Renorm(sg, DropBits(m, n - MantissaBits), e + (n - MantissaBits))
RoundNearestEvenV(sg, m, e) == Val4(RoundBitsV, sg, m, e, LBitLen(m))
RoundNearestEven(sg, m, e) == Val3(RoundNearestEvenV, sg, m, e)

FromIntV(n) == RoundNearestEven(IF n < 0 THEN -1 ELSE IF n = 0 THEN 0 ELSE 1,
                                LNat(IF n < 0 THEN -n ELSE n), 0)
FromInt(n) == Val1(FromIntV, n)

FMulV(a, b) == RoundNearestEven(a.sgn * b.sgn, LMul(a.mant, b.mant), a.exp + b.exp)
FMul(a, b) == Val2(FMulV, a, b)

FNegV(a) == [sgn |-> -a.sgn, mant |-> a.mant, exp |-> a.exp]
FNeg(a) == Val1(FNegV, a)

\* sgn * (ma - mb) * 2^e for aligned magnitudes, c their comparison.
DiffV(sa, ma, sb, mb, e, c) ==
    IF c = 0 THEN FZero
    ELSE IF c > 0 THEN [sgn |-> sa, mant |-> LSub(ma, mb), exp |-> e]
    ELSE [sgn |-> sb, mant |-> LSub(mb, ma), exp |-> e]

AlignedAddV(sa, ma, sb, mb, e) ==
    IF sa = sb THEN [sgn |-> sa, mant |-> LAdd(ma, mb), exp |-> e]
    ELSE Val6(DiffV, sa, ma, sb, mb, e, LCmp(ma, mb))

AlignV(a, b, e) ==
    Val5(AlignedAddV, a.sgn, LShl(a.mant, a.exp - e), b.sgn, LShl(b.mant, b.exp - e), e)

\* The exact sum a + b (not rounded).
ExactAddV(a, b) ==
    IF a.sgn = 0 THEN b
    ELSE IF b.sgn = 0 THEN a
    ELSE Val3(AlignV, a, b, IF a.exp < b.exp THEN a.exp ELSE b.exp)
ExactAdd(a, b) == Val2(ExactAddV, a, b)

RoundV(x) == RoundNearestEven(x.sgn, x.mant, x.exp)
FAdd(a, b) == Val1(RoundV, ExactAdd(a, b))
FSub(a, b) == FAdd(a, FNeg(b))
FCmp(a, b) == ExactAdd(a, FNeg(b)).sgn

\* Math.max where Math.min was meant.
FMax(a, b) == IF FCmp(a, b) < 0 THEN b ELSE a

\* Math.min on finite Numbers.
FMinV(a, b) == IF FCmp(b, a) < 0 THEN b ELSE a
FMin(a, b) == Val2(FMinV, a, b)

QuotLimbs == 4

\* LimbBits steps of binary long division: the next quotient limb.
RECURSIVE DigitFrom(_, _, _, _)
DigitStepV(r2, dv, digit, steps) ==
    IF LCmp(r2, dv) >= 0
    THEN DigitFrom(LSub(r2, dv), dv, 2 * digit + 1, steps - 1)
    ELSE DigitFrom(r2, dv, 2 * digit, steps - 1)
DigitFrom(r, dv, digit, steps) ==
    IF steps = 0 THEN [rem |-> r, digit |-> digit]
    ELSE Val4(DigitStepV, LAdd(r, r), dv, digit, steps)

RECURSIVE QuotFrom(_, _, _)
QuotRestV(d, dv, n) ==
    Val2(LAMBDA lo, dg : [rem |-> lo.rem, limbs |-> lo.limbs \o <<dg>>],
         QuotFrom(d.rem, dv, n - 1), d.digit)
QuotFrom(r, dv, n) ==
    IF n = 0 THEN [rem |-> r, limbs |-> <<>>]
    ELSE Val3(QuotRestV, DigitFrom(r, dv, 0, LimbBits), dv, n)

\* a / b for b # 0: QuotLimbs limbs of quotient below the leading bit, and a
\* last bit that is set when the division left a remainder.
QuotientV(a, b, first, q) ==
    RoundNearestEven(a.sgn * b.sgn,
                     LAdd(LMulSmall(LTrim(q.limbs \o <<first>>), 2),
                          IF q.rem = <<>> THEN <<>> ELSE <<1>>),
                     a.exp - b.exp - (QuotLimbs * LimbBits + 1))
FDivFirstV(a, b, first) ==
    Val4(QuotientV, a, b, first,
         QuotFrom(IF first = 1 THEN LSub(a.mant, b.mant) ELSE a.mant, b.mant, QuotLimbs))
FDivV(a, b) ==
    IF a.sgn = 0 THEN FZero
    ELSE Val3(FDivFirstV, a, b, IF LCmp(a.mant, b.mant) >= 0 THEN 1 ELSE 0)
FDiv(a, b) == Val2(FDivV, a, b)

----------------------------------------------------------------------------
(* Values of the component                                                 *)

\* A nullable value (null, or a React child that renders nothing) is the
\* empty sequence; a present one is a one-element sequence.
Null == <<>>
Some(v) == <<v>>

padding == 40
radius == 5

\* Player.ts: id, name, x, y, team, alive.
Player(id, name, px, py, team, alive) ==
    [id |-> id, name |-> name, x |-> px, y |-> py, team |-> team, alive |-> alive]

\* App.tsx's mockPlayers; a feed with one player on the map origin and the
\* other dead; an empty feed.
mockPlayers ==
    << Player("1", "s1mple", 400, 300, "T", TRUE),
       Player("2", "device", 450, 350, "CT", TRUE) >>

PlayerLists ==
    { mockPlayers,
      << Player("1", "s1mple", 0, 0, "T", TRUE),
         Player("2", "device", 450, 350, "CT", FALSE) >>,
      << >> }

----------------------------------------------------------------------------
(* MapCanvas and PlayerMarker (scaling variant)                            *)

\* A returned object whose height is scaled from the image's width.
ScaledSizeSquare(img, scale) ==
    [scale  |-> scale,
     width  |-> FMul(FromInt(img[1].width), scale),
     height |-> FMul(FromInt(img[1].width), scale)]

\* The object getScaleFactor returns once scale is known (lines 51-55).
ScaledSize(img, scale) ==
    [scale  |-> scale,
     width  |-> FMul(FromInt(img[1].width), scale),
     height |-> FMul(FromInt(img[1].height), scale)]

getScaleFactor(img, dims) ==
    IF img = Null THEN [scale |-> FromInt(1), width |-> FZero, height |-> FZero]
    ELSE LET availableWidth  == FSub(FromInt(dims.width), FromInt(padding))
             availableHeight == FSub(FromInt(dims.height), FromInt(padding))
             scaleX == FDiv(availableWidth, FromInt(img[1].width))
             scaleY == FDiv(availableHeight, FromInt(img[1].height))
         IN  Val2(ScaledSize, img, FMin(scaleX, scaleY))

\* A PlayerMarker without the alive check.
PlayerMarkerAlways(player, scale, offsetX, offsetY) ==
    Some([x      |-> FAdd(FMul(FromInt(player.x), scale), offsetX),
          y      |-> FAdd(FMul(FromInt(player.y), scale), offsetY),
          radius |-> radius,
          fill   |-> IF player.team = "CT" THEN "#4da6ff" ELSE "#ffb347"])

PlayerMarker(player, scale, offsetX, offsetY) ==
    LET color == IF player.team = "CT" THEN "#4da6ff" ELSE "#ffb347"
    IN  IF ~player.alive THEN Null
        ELSE Some([x      |-> FAdd(FMul(FromInt(player.x), scale), offsetX),
                   y      |-> FAdd(FMul(FromInt(player.y), scale), offsetY),
                   radius |-> radius,
                   fill   |-> color])

\* The fixed-viewport variant of PlayerMarker: map coordinates used as they are.
PlayerMarkerFixed(player) ==
    LET fixedColor == IF player.team = "CT" THEN "#4da6ff" ELSE "#ffb347"
    IN  IF ~player.alive THEN Null
        ELSE Some([x      |-> FromInt(player.x),
                   y      |-> FromInt(player.y),
                   radius |-> radius,
                   fill   |-> fixedColor])

\* The x/y props of <Image> (lines 68-69).
ImageX(dims, fit) == FDiv(FSub(FromInt(dims.width), fit.width), FromInt(2))
ImageY(dims, fit) == FDiv(FSub(FromInt(dims.height), fit.height), FromInt(2))

\* A marker offset that is the whole horizontal margin, not half of it.
MarkerOffsetXUnhalved(dims, fit) == FSub(FromInt(dims.width), fit.width)

\* A marker offset read from the live window instead of the dimensions state.
MarkerOffsetYLive(dims, fit) == FDiv(FSub(FromInt(innerSize.height), fit.height), FromInt(2))

\* The offsetX/offsetY props of every <PlayerMarker> (lines 78-79).
MarkerOffsetX(dims, fit) == FDiv(FSub(FromInt(dims.width), fit.width), FromInt(2))
MarkerOffsetY(dims, fit) == FDiv(FSub(FromInt(dims.height), fit.height), FromInt(2))

\* The <Image> child of the Layer: present only when mapImage is set.
MapImageChild(img, dims, fit) ==
    IF img = Null THEN Null
    ELSE Some([image  |-> img[1],
               width  |-> fit.width,
               height |-> fit.height,
               x      |-> ImageX(dims, fit),
               y      |-> ImageY(dims, fit)])

\* One <PlayerMarker> per player, in list order, whatever mapImage is: its
\* props and what it returns.
MarkerElements(ps, scale, offsetX, offsetY) ==
    [i \in 1..Len(ps) |->
        [key     |-> ps[i].id,
         scale   |-> scale,
         offsetX |-> offsetX,
         offsetY |-> offsetY,
         circle  |-> PlayerMarker(ps[i], scale, offsetX, offsetY)]]

MarkerChildren(ps, dims, fit) ==
    Val4(MarkerElements, ps, fit.scale, MarkerOffsetX(dims, fit), MarkerOffsetY(dims, fit))

\* The element tree returned for the destructured { scale, width, height }.
StageTree(ps, img, dims, fit) ==
    [stage   |-> [width |-> dims.width, height |-> dims.height],
     image   |-> MapImageChild(img, dims, fit),
     markers |-> MarkerChildren(ps, dims, fit)]

\* One render pass of MapCanvas over the state snapshot (img, dims).
MapCanvas(ps, img, dims) == Val4(StageTree, ps, img, dims, getScaleFactor(img, dims))

----------------------------------------------------------------------------
(* The component as a state machine                                        *)

MaxPendingResize == 2
MaxPendingUpdates == 2

\* Window sizes the host may report: too small for the padding on one or
\* both axes, exactly the padding, and roomy.
WindowWidths  == {30, 69}
WindowHeights == {40, 90}
WindowSizes   == {[width |-> w, height |-> h] : w \in WindowWidths, h \in WindowHeights}

\* Intrinsic sizes of the decoded map image.
AssetSizes == {[width |-> 7, height |-> 7], [width |-> 2, height |-> 4]}

Images == {Null} \cup {Some(a) : a \in AssetSizes}

\* MapCanvas and getScaleFactor are pure functions of (players, mapImage,
\* dimensions): their results over the inputs above are computed once, any
\* other input directly.
RenderCache ==
    [ps \in PlayerLists, img \in Images, dims \in WindowSizes |-> MapCanvas(ps, img, dims)]

FitCache == [img \in Images, dims \in WindowSizes |-> getScaleFactor(img, dims)]

Fitted(img, dims) ==
    IF img \in Images /\ dims \in WindowSizes
    THEN FitCache[img, dims]
    ELSE getScaleFactor(img, dims)

Rendered(ps, img, dims) ==
    IF ps \in PlayerLists /\ img \in Images /\ dims \in WindowSizes
    THEN RenderCache[ps, img, dims]
    ELSE MapCanvas(ps, img, dims)

\* A state setter queues its update and schedules a render pass; updates
\* queued before the pass runs are batched into it (counted up to the cap).
Enqueued == IF pendingUpdates < MaxPendingUpdates THEN pendingUpdates + 1 ELSE pendingUpdates
renderPending == pendingUpdates > 0

setMapImage(img) ==
    /\ mapImage' = img
    /\ pendingUpdates' = Enqueued

\* A setter that drops the new size while a render pass is already pending.
setDimensionsThrottled(dims) ==
    /\ dimensions' = IF renderPending THEN dimensions ELSE dims
    /\ pendingUpdates' = Enqueued

setDimensions(dims) ==
    /\ dimensions' = dims
    /\ pendingUpdates' = Enqueued

\* The state once MapCanvas has mounted: both useState initialisers have
\* run, the first render pass is committed, the image load is requested and
\* the resize listener is registered.
InitWith(ps, a, size) ==
    /\ players = ps
    /\ asset = a
    /\ innerSize = size
    /\ mapImage = Null
    /\ dimensions = [width |-> size.width, height |-> size.height]
    /\ resizeQueue = 0
    /\ listening = TRUE
    /\ mounted = TRUE
    /\ loadState = "loading"
    /\ pendingUpdates = 0
    /\ frame = Rendered(ps, Null, [width |-> size.width, height |-> size.height])

Init == \E ps \in PlayerLists, a \in AssetSizes, size \in WindowSizes : InitWith(ps, a, size)

\* The host resizes the window and queues a resize event.
WindowResize(size) ==
    /\ resizeQueue < MaxPendingResize
    /\ size # innerSize
    /\ innerSize' = size
    /\ resizeQueue' = resizeQueue + 1
    /\ UNCHANGED <<players, asset, mapImage, dimensions, listening, mounted,
                   loadState, pendingUpdates, frame>>

\* A listener that also discards the loaded image on every resize.
handleResizeReload ==
    /\ resizeQueue > 0
    /\ listening
    /\ resizeQueue' = resizeQueue - 1
    /\ mapImage' = Null
    /\ setDimensions([width |-> innerSize.width, height |-> innerSize.height])
    /\ UNCHANGED <<players, asset, innerSize, listening, mounted, loadState, frame>>

\* A queued resize event reaches the registered listener.
handleResize ==
    /\ resizeQueue > 0
    /\ listening
    /\ resizeQueue' = resizeQueue - 1
    /\ setDimensions([width |-> innerSize.width, height |-> innerSize.height])
    /\ UNCHANGED <<players, asset, mapImage, innerSize, listening, mounted,
                   loadState, frame>>

\* A queued resize event is dispatched after removeEventListener.
ResizeUnheard ==
    /\ resizeQueue > 0
    /\ ~listening
    /\ resizeQueue' = resizeQueue - 1
    /\ UNCHANGED <<players, asset, mapImage, dimensions, innerSize, listening,
                   mounted, loadState, pendingUpdates, frame>>

\* The image's load event: img.onload = () => setMapImage(img).
onload ==
    /\ loadState = "loading"
    /\ loadState' = "loaded"
    /\ setMapImage(Some(asset))
    /\ UNCHANGED <<players, asset, dimensions, innerSize, resizeQueue, listening,
                   mounted, frame>>

\* React runs the scheduled render pass of the mounted component.
Render ==
    /\ mounted
    /\ renderPending
    /\ pendingUpdates' = 0
    /\ frame' = Rendered(players, mapImage, dimensions)
    /\ UNCHANGED <<players, asset, mapImage, dimensions, innerSize, resizeQueue,
                   listening, mounted, loadState>>

\* MapCanvas unmounts: the second effect's cleanup removes the listener; the
\* first effect has no cleanup.
Unmount ==
    /\ mounted
    /\ mounted' = FALSE
    /\ listening' = FALSE
    /\ UNCHANGED <<players, asset, mapImage, dimensions, innerSize, resizeQueue,
                   loadState, pendingUpdates, frame>>

Next ==
    \/ \E size \in WindowSizes : WindowResize(size)
    \/ handleResize
    \/ ResizeUnheard
    \/ onload
    \/ Render
    \/ Unmount

Spec == Init /\ [][Next]_vars

----------------------------------------------------------------------------
(* The fit alone: one mount, load and render per image and window size     *)

MaxMapDim == 7

FitAssetSizes  == {[width |-> w, height |-> h] : w \in 1..MaxMapDim, h \in 1..MaxMapDim}
FitWindowSizes == {[width |-> w, height |-> h] : w \in {30, 40, 69, 101, 1000},
                                                  h \in {40, 69, 90, 800}}

InitFit == \E a \in FitAssetSizes, size \in FitWindowSizes : InitWith(mockPlayers, a, size)

NextFit == onload \/ Render

SpecFit == InitFit /\ [][NextFit]_vars

----------------------------------------------------------------------------
(* The render pass alone: one mount, load and render per player list       *)

InitRender ==
    \E ps \in PlayerLists, a \in AssetSizes, size \in FitWindowSizes : InitWith(ps, a, size)

SpecRender == InitRender /\ [][NextFit]_vars

----------------------------------------------------------------------------
(* Exact comparisons used to state the properties                          *)

\* x * n for a Number x and an integer n, not rounded.
ExactTimes(x, n) ==
    IF x.sgn = 0 \/ n = 0 THEN FZero
    ELSE [sgn  |-> IF n < 0 THEN -x.sgn ELSE x.sgn,
          mant |-> LMul(x.mant, LNat(IF n < 0 THEN -n ELSE n)),
          exp  |-> x.exp]

\* x * 2^k, not rounded.
TimesPow2(x, k) == [sgn |-> x.sgn, mant |-> x.mant, exp |-> IF x.sgn = 0 THEN 0 ELSE x.exp + k]

Magnitude(x) == [sgn |-> IF x.sgn = 0 THEN 0 ELSE 1, mant |-> x.mant, exp |-> x.exp]

ExactLeq(x, y) == ExactAdd(x, FNeg(y)).sgn <= 0
ExactEq(x, y) == ExactAdd(x, FNeg(y)).sgn = 0

\* x - y <= |y| * 2^-k  and  |x - y| <= |y| * 2^-k.
NotAboveWithin(x, y, k) == ExactLeq(TimesPow2(ExactAdd(x, FNeg(y)), k), Magnitude(y))
CloseWithin(x, y, k) == ExactLeq(TimesPow2(Magnitude(ExactAdd(x, FNeg(y))), k), Magnitude(y))

\* The frame's view of what it was rendered from.
FrameImage == IF frame.image = Null THEN Null ELSE Some(frame.image[1].image)
AvailableWidth == frame.stage.width - padding
AvailableHeight == frame.stage.height - padding
Circles == {i \in DOMAIN frame.markers : frame.markers[i].circle # Null}

----------------------------------------------------------------------------
(* Properties                                                              *)

\* C1: a frame rendered while mapImage is null draws no background image and
\* no marker, whatever the player list; a frame rendered once the image is
\* set draws exactly one marker per alive player.
C1_NothingDrawnBeforeLoad ==
    /\ frame.image = Null => Circles = {}
    /\ frame.image # Null => Circles = {i \in DOMAIN players : players[i].alive}

\* C2 as stated: the fitted image never exceeds the available space and meets
\* it exactly on one axis.
C2_FitExact ==
    frame.image # Null =>
        /\ ExactLeq(frame.image[1].width, FromInt(AvailableWidth))
        /\ ExactLeq(frame.image[1].height, FromInt(AvailableHeight))
        /\ \/ ExactEq(frame.image[1].width, FromInt(AvailableWidth))
           \/ ExactEq(frame.image[1].height, FromInt(AvailableHeight))

\* C2, amended: the fitted image exceeds the available space on neither axis
\* by more than a relative 2^-52 (one unit in the last place of a Number), and
\* on one axis it is within a relative 2^-52 of the available space.
C2_FitWithinRounding ==
    frame.image # Null =>
        /\ NotAboveWithin(frame.image[1].width, FromInt(AvailableWidth), MantissaBits - 1)
        /\ NotAboveWithin(frame.image[1].height, FromInt(AvailableHeight), MantissaBits - 1)
        /\ \/ CloseWithin(frame.image[1].width, FromInt(AvailableWidth), MantissaBits - 1)
           \/ CloseWithin(frame.image[1].height, FromInt(AvailableHeight), MantissaBits - 1)

\* A drawn image whose width came out above the available width.
C2_Witness ==
    /\ frame.image # Null
    /\ ~ExactLeq(frame.image[1].width, FromInt(AvailableWidth))
    /\ AvailableWidth > 0

\* C3: with the image loaded and no room left after the padding on some axis,
\* the image is drawn 0 by 0 and every marker sits on the offset origin.
C3_DegenerateViewportDrawsNothing ==
    (frame.image # Null /\ (AvailableWidth <= 0 \/ AvailableHeight <= 0)) =>
        /\ frame.image[1].width = FZero
        /\ frame.image[1].height = FZero
        /\ \A i \in Circles :
              /\ frame.markers[i].circle[1].x = frame.markers[i].offsetX
              /\ frame.markers[i].circle[1].y = frame.markers[i].offsetY

\* C4: a player whose alive flag is false has no marker in any frame, before
\* or after the image load, in the scaling and in the fixed variant.
C4_DeadPlayersAbsent ==
    /\ Len(frame.markers) = Len(players)
    /\ \A i \in DOMAIN players :
          /\ frame.markers[i].key = players[i].id
          /\ ~players[i].alive => frame.markers[i].circle = Null
          /\ ~players[i].alive => PlayerMarkerFixed(players[i]) = Null

\* A loaded frame that shows one player and leaves a dead one out.
C4_Witness ==
    /\ frame.image # Null
    /\ \E i, j \in DOMAIN players :
          /\ ~players[i].alive /\ frame.markers[i].circle = Null
          /\ players[j].alive /\ frame.markers[j].circle # Null

\* C5: the component is AwaitingAsset (mapImage null) or Ready (mapImage
\* set); it becomes Ready only by the image's one load event, and once Ready
\* it never returns to AwaitingAsset, whatever resize, render or unmount
\* steps follow.
C5_ReadyOnceNeverReverts ==
    [][ /\ mapImage # Null => mapImage' = mapImage
        /\ (mapImage = Null /\ mapImage' # Null) =>
              (loadState = "loading" /\ loadState' = "loaded" /\ mapImage' = Some(asset))
        /\ loadState' = "loaded" => mapImage' # Null ]_vars

\* Ready, with a frame of the image on screen and resize events still coming.
C5_Witness ==
    /\ mapImage # Null
    /\ frame.image # Null
    /\ frame.stage # dimensions
    /\ resizeQueue > 0

\* C6 as stated: the fitted rectangle has exactly the map's aspect ratio,
\* renderedWidth * mapHeight = renderedHeight * mapWidth, when the available
\* space is positive.
C6_AspectExact ==
    (frame.image # Null /\ AvailableWidth > 0 /\ AvailableHeight > 0) =>
        ExactEq(ExactTimes(frame.image[1].width, frame.image[1].image.height),
                ExactTimes(frame.image[1].height, frame.image[1].image.width))

\* C6, amended: both sides are the one scale = min(scaleX, scaleY) times the
\* map's size, each rounded to a Number, so renderedWidth * mapHeight and
\* renderedHeight * mapWidth agree within a relative 2^-51.
C6_AspectWithinRounding ==
    (frame.image # Null /\ AvailableWidth > 0 /\ AvailableHeight > 0) =>
        /\ CloseWithin(ExactTimes(frame.image[1].width, frame.image[1].image.height),
                       ExactTimes(frame.image[1].height, frame.image[1].image.width),
                       MantissaBits - 2)
        /\ \A i \in DOMAIN frame.markers :
              /\ frame.image[1].width = FMul(FromInt(frame.image[1].image.width), frame.markers[i].scale)
              /\ frame.image[1].height = FMul(FromInt(frame.image[1].image.height), frame.markers[i].scale)

\* A non-square map fitted with room on both axes whose two products differ.
C6_Witness ==
    /\ frame.image # Null
    /\ AvailableWidth > 0 /\ AvailableHeight > 0
    /\ frame.image[1].image.width # frame.image[1].image.height
    /\ ~ExactEq(ExactTimes(frame.image[1].width, frame.image[1].image.height),
                ExactTimes(frame.image[1].height, frame.image[1].image.width))

\* C7: in every frame the offsets handed to each PlayerMarker are
\* (stage width - rendered width) / 2 and (stage height - rendered height) / 2,
\* they are the x/y of the background image when it is drawn, an alive
\* player at (x, y) is drawn at (x * scale + offsetX, y * scale + offsetY),
\* and so a player at (0, 0) is drawn on the image's top-left corner.
C7_SharedCenteredOffsets ==
    LET renderedWidth  == IF frame.image = Null THEN FZero ELSE frame.image[1].width
        renderedHeight == IF frame.image = Null THEN FZero ELSE frame.image[1].height
        centerX == FDiv(FSub(FromInt(frame.stage.width), renderedWidth), FromInt(2))
        centerY == FDiv(FSub(FromInt(frame.stage.height), renderedHeight), FromInt(2))
    IN  /\ frame.image # Null => (frame.image[1].x = centerX /\ frame.image[1].y = centerY)
        /\ \A i \in DOMAIN frame.markers :
              /\ frame.markers[i].offsetX = centerX
              /\ frame.markers[i].offsetY = centerY
        /\ \A i \in Circles :
              /\ frame.markers[i].circle[1].x =
                    FAdd(FMul(FromInt(players[i].x), frame.markers[i].scale), centerX)
              /\ frame.markers[i].circle[1].y =
                    FAdd(FMul(FromInt(players[i].y), frame.markers[i].scale), centerY)
              /\ (players[i].x = 0 /\ players[i].y = 0) =>
                    /\ frame.markers[i].circle[1].x = centerX
                    /\ frame.markers[i].circle[1].y = centerY

\* A drawn image, off the stage's corner, with a player marked on its corner
\* and another player marked elsewhere.
C7_Witness ==
    /\ frame.image # Null
    /\ frame.image[1].x # FZero
    /\ \E i \in Circles :
          /\ players[i].x = 0 /\ players[i].y = 0
          /\ frame.markers[i].circle[1].x = frame.image[1].x
          /\ frame.markers[i].circle[1].y = frame.image[1].y

\* C8: every frame is computed from one (dimensions, mapImage) pair: its
\* scale, rendered size, image position and marker offsets are all those of
\* the size its Stage was given and of the image it drew (or of no image).
C8_FrameFromOneSnapshot ==
    LET fit == Fitted(FrameImage, frame.stage)
        offX == FDiv(FSub(FromInt(frame.stage.width), fit.width), FromInt(2))
        offY == FDiv(FSub(FromInt(frame.stage.height), fit.height), FromInt(2))
    IN  /\ frame.stage \in WindowSizes \cup FitWindowSizes
        /\ frame.image # Null =>
              /\ frame.image[1].image = asset
              /\ frame.image[1].width = fit.width
              /\ frame.image[1].height = fit.height
              /\ frame.image[1].x = offX
              /\ frame.image[1].y = offY
        /\ \A i \in DOMAIN frame.markers :
              /\ frame.markers[i].scale = fit.scale
              /\ frame.markers[i].offsetX = offX
              /\ frame.markers[i].offsetY = offY

\* A frame of the loaded image still on screen while the window, and the
\* dimensions state, have already moved on to another size.
C8_Witness ==
    /\ frame.image # Null
    /\ renderPending
    /\ frame.stage # dimensions
    /\ dimensions # [width |-> innerSize.width, height |-> innerSize.height]
    /\ resizeQueue > 0

\* C9: once every queued resize event has reached the listener, dimensions
\* is the window's latest size, however many events arrived between two
\* render passes; and whenever no render pass is pending, the frame on
\* screen is the one computed from the current dimensions and mapImage.
C9_LatestSizeWins ==
    /\ (listening /\ resizeQueue = 0) =>
          dimensions = [width |-> innerSize.width, height |-> innerSize.height]
    /\ (mounted /\ ~renderPending) =>
          /\ frame.stage = dimensions
          /\ FrameImage = mapImage
          /\ frame = Rendered(players, mapImage, dimensions)

\* Two updates batched ahead of one render pass, the last a resize to a size
\* the frame on screen does not have, and no event left in the queue.
C9_Witness ==
    /\ mounted /\ listening /\ resizeQueue = 0
    /\ mapImage # Null /\ frame.image # Null
    /\ pendingUpdates >= 2
    /\ dimensions = [width |-> innerSize.width, height |-> innerSize.height]
    /\ frame.stage # dimensions

\* C10: after MapCanvas has unmounted, neither the image's load event nor a
\* resize event changes mapImage or dimensions.
C10_NoStateChangeAfterUnmount ==
    [][~mounted => (mapImage' = mapImage /\ dimensions' = dimensions)]_vars

====
